---- MODULE Spec2Model ----
(***************************************************************************)
(* Sandboxed execution and grading engine of myTeach.                      *)
(*                                                                         *)
(* Five specifications over one set of variables:                          *)
(*   SpecValidate  validate_test_cases as a function of its inputs         *)
(*   SpecScore     calculate_score as a function of its inputs             *)
(*   SpecFeedback  score, passed and feedback of one grading pass          *)
(*   SpecBackend   one execute_code call on either sandbox backend         *)
(*   Spec          submit_exercise / grade_exercise / get_exercise_result  *)
(* Text is a sequence of one-character strings, so that strip(),           *)
(* truncation and f-string concatenation are computed, not assumed.        *)
(***************************************************************************)
EXTENDS Integers, Sequences, FiniteSets, TLC

VARIABLES
    \* validate_test_cases: position, inputs, outcome
    v_pc, v_exec, v_cases, v_out,
    \* calculate_score: position, input, result
    s_pc, s_results, s_score,
    \* score, passed and feedback of one grading pass: position, input, results
    f_pc, f_results, f_score, f_passed, f_feedback,
    \* the sandbox objects and one execute_code call
    client_ok,      \* DockerSandbox.client is not None
    image_present,  \* the sandbox image exists in the container runtime
    backend,        \* the sandbox whose execute_code is running
    language, timeout_arg, prog,   \* the request and what its code does
    bpc,            \* position of execute_code
    timeout,        \* the resolved timeout
    staging,        \* the temporary directory / file of the request
    ctr,            \* the container launched for the request
    proc,           \* the process launched for the request
    bres,           \* the dict execute_code returned
    bfault,         \* the internal fault the call met, "none" if none
    expired,        \* the timeout expired while the code was running
    limits,         \* the limits the launched container / process runs under
    net,            \* outcome of the code's attempt to reach an external host
    \* the database and one submission
    exercise_present,  \* db.exercises holds the exercise
    ex_cases,          \* its test_cases
    attempt,           \* the db.exercise_attempts record of the submission
    gpc,               \* position of submit_exercise / grade_exercise
    g_lang, g_prog,    \* submission.language, what submission.code does
    g_cases,           \* test_cases as grade_exercise read them
    g_exec, g_results, g_score, g_passed, g_feedback,   \* its locals
    g_ret,             \* what grade_exercise returned
    poll,              \* the last response of get_exercise_result
    \* the server process: one event loop, several requests
    c_exercise,        \* db.exercises holds the exercise the requests name
    q_user,            \* the user of each request
    q_pc,              \* position of each request's handler / background task
    q_count,           \* attempt_count as each handler read it
    stored,            \* the documents of db.exercise_attempts
    loop               \* the request whose synchronous call holds the event loop

vvars == <<v_pc, v_exec, v_cases, v_out>>
svars == <<s_pc, s_results, s_score>>
fvars == <<f_pc, f_results, f_score, f_passed, f_feedback>>
envvars == <<client_ok, image_present>>
bvars == <<backend, language, timeout_arg, prog, bpc, timeout, staging, ctr,
           proc, bres, bfault, expired, limits, net>>
gvars == <<exercise_present, ex_cases, attempt, gpc, g_lang, g_prog, g_cases,
           g_exec, g_results, g_score, g_passed, g_feedback, g_ret, poll>>
cvars == <<c_exercise, q_user, q_pc, q_count, stored, loop>>
vars == <<vvars, svars, fvars, envvars, bvars, gvars, cvars>>

----------------------------------------------------------------------------
(* Bounds of the model *)

MaxTests == 2
MaxScoreTests == 50
MaxFeedbackTests == 4

----------------------------------------------------------------------------
(* Python values *)

NoneV == <<>>
Some(x) == <<x>>

Whitespace == {" ", "\n", "\t"}

RECURSIVE lstrip(_)
lstrip(s) ==
    IF s = <<>> THEN s
    ELSE IF Head(s) \in Whitespace THEN lstrip(Tail(s)) ELSE s

RECURSIVE rstrip(_)
rstrip(s) ==
    IF s = <<>> THEN s
    ELSE IF s[Len(s)] \in Whitespace THEN rstrip(SubSeq(s, 1, Len(s) - 1)) ELSE s

strip(s) == rstrip(lstrip(s))

\* f"test_{i}" for the indices the model reaches
FmtTestIdx(i) ==
    CASE i = 0 -> "test_0"
      [] i = 1 -> "test_1"
      [] i = 2 -> "test_2"
      [] i = 3 -> "test_3"
      [] OTHER -> "test_n"

----------------------------------------------------------------------------
(* Test cases as validate_test_cases receives them (List[Any]).            *)
(*   kind "dict":  a document of the exercise record                       *)
(*   kind "obj":   a TestCase object                                       *)
(*   kind "other": neither a dict nor an object with a test_id attribute   *)
(* eo is the shape of expected_output, so the shape of its "stdout" entry: *)
(* "str" (text in stdout), "num" (a truthy non-text value), "absent".      *)

TC(kind, has_id, test_id, eo, so, stdout) ==
    [kind |-> kind, has_id |-> has_id, test_id |-> test_id,
     eo |-> eo, so |-> so, stdout |-> stdout]

ExpectedTexts == { <<>>, <<"a">>, <<"a", "\n">>, <<" ">> }

WellFormedCases ==
    { TC("dict", TRUE, "t1", "dict", "str", s) : s \in ExpectedTexts }
    \cup { TC("obj", TRUE, "t2", "dict", "str", <<"a", "\n">>),
           TC("dict", FALSE, "", "dict", "str", <<"a">>),
           TC("dict", TRUE, "t3", "absent", "absent", <<>>),
           TC("dict", TRUE, "t4", "dict", "absent", <<>>) }

MalformedCases ==
    { TC("dict", TRUE, "t5", "nondict", "absent", <<>>),
      TC("dict", TRUE, "t6", "dict", "num", <<>>),
      TC("obj", TRUE, "t7", "dict", "num", <<>>),
      TC("other", FALSE, "", "absent", "absent", <<>>) }

TestCases == WellFormedCases \cup MalformedCases

SeqsUpTo(S, n) == UNION { [1..k -> S] : k \in 0..n }

ExecResult(stdout, stderr, exit_code, execution_time) ==
    [stdout |-> stdout, stderr |-> stderr, exit_code |-> exit_code,
     execution_time |-> execution_time]

TestResult(test_id, passed, actual_output, error_message) ==
    [test_id |-> test_id, passed |-> passed,
     actual_output |-> actual_output, error_message |-> error_message]

Returned(x) == [raised |-> FALSE, value |-> x]
Raised == [raised |-> TRUE, value |-> <<>>]

----------------------------------------------------------------------------
(* test_validator.py *)

IsDict(tc) == tc.kind = "dict"

\* test_case.test_id on a non-dict: AttributeError unless it is a TestCase
HasTestIdAttr(tc) == tc.kind = "obj"

\* test_case.get("test_id", default) if isinstance(test_case, dict)
\* else test_case.test_id
GetTestId(tc, default) ==
    IF IsDict(tc) THEN (IF tc.has_id THEN tc.test_id ELSE default)
    ELSE tc.test_id

\* expected_output.get("stdout", "") if isinstance(expected_output, dict) else ""
ExpectedIsText(tc) == tc.eo = "dict" /\ tc.so = "str"
ExpectedIsNum(tc) == tc.eo = "dict" /\ tc.so = "num"
ExpectedStdout(tc) == IF ExpectedIsText(tc) THEN tc.stdout ELSE <<>>
Truthy(tc) == ExpectedIsNum(tc) \/ (ExpectedIsText(tc) /\ tc.stdout # <<>>)

\* the try block raises: attribute access on a non-TestCase object, or
\* .strip() on an expected stdout that is not text
SingleTestFaults(tc) ==
    \/ (~IsDict(tc) /\ ~HasTestIdAttr(tc))
    \/ ExpectedIsNum(tc)

FaultText(tc) ==
    IF ~IsDict(tc) /\ ~HasTestIdAttr(tc)
    THEN <<"object has no attribute 'test_id'">>
    ELSE <<"object has no attribute 'strip'">>

MismatchMessage(expected, actual) ==
    <<"Expected: ", "'">> \o expected \o <<"'", ", Got: ", "'">> \o actual \o <<"'">>

\* the comparison without the trimming
StdoutsEqualUntrimmed(actual, expected) == actual = expected

\* actual_stdout.strip() == expected_stdout.strip()
StdoutsEqual(actual, expected) == strip(actual) = strip(expected)

validate_single_test(er, tc) ==
    IF SingleTestFaults(tc)
    THEN TestResult(
            IF IsDict(tc) THEN GetTestId(tc, "test_error") ELSE "test_error",
            FALSE, NoneV,
            Some(<<"Validation error: ">> \o FaultText(tc)))
    ELSE LET test_id == GetTestId(tc, "test_1")
             expected_stdout == ExpectedStdout(tc)
             actual_stdout == er.stdout
         IN  IF Truthy(tc)
             THEN IF StdoutsEqual(actual_stdout, expected_stdout)
                  THEN TestResult(test_id, TRUE,
                                  Some([stdout |-> actual_stdout]), NoneV)
                  ELSE TestResult(test_id, FALSE,
                                  Some([stdout |-> actual_stdout]),
                                  Some(MismatchMessage(expected_stdout, actual_stdout)))
             ELSE IF er.exit_code = 0
                  THEN TestResult(test_id, TRUE,
                                  Some([stdout |-> actual_stdout]), NoneV)
                  ELSE TestResult(test_id, FALSE,
                                  Some([stdout |-> actual_stdout]),
                                  Some(<<"Non-zero exit code">>))

\* the loop of the execution-failed branch: it has no try block
FailedBranchRaises(cases) ==
    \E i \in 1..Len(cases) : ~IsDict(cases[i]) /\ ~HasTestIdAttr(cases[i])

ExecutionFailedMessage(er) == <<"Execution failed: ">> \o er.stderr

\* a failing result that gives no reason
FailedBranchResultSilent(er, cases, i) ==
    TestResult(GetTestId(cases[i], FmtTestIdx(i - 1)), FALSE, NoneV, NoneV)

FailedBranchResult(er, cases, i) ==
    TestResult(GetTestId(cases[i], FmtTestIdx(i - 1)), FALSE, NoneV,
               Some(ExecutionFailedMessage(er)))

validate_test_cases(er, cases) ==
    IF er.exit_code # 0
    THEN IF FailedBranchRaises(cases)
         THEN Raised
         ELSE Returned([i \in 1..Len(cases) |-> FailedBranchResult(er, cases, i)])
    ELSE Returned([i \in 1..Len(cases) |-> validate_single_test(er, cases[i])])

----------------------------------------------------------------------------
(* calculate_score: int((passed / total) * 100) in binary64 arithmetic.    *)
(* A positive double is [e, m]: m is its 53-bit significand, most          *)
(* significant bit first (m[1] = 1), and its value is                      *)
(* (m read as an integer) * 2^(e - 52).                                    *)

MantissaBits == 53

Pow2(n) == 2^n

\* 2^n mod t by repeated squaring
RECURSIVE Pow2Mod(_, _)
Pow2Mod(n, t) ==
    IF n = 0 THEN 1 % t
    ELSE LET h == Pow2Mod(n \div 2, t)
         IN  (h * h * (IF n % 2 = 1 THEN 2 ELSE 1)) % t

\* the least k with p * 2^k >= t
RECURSIVE NormShift(_, _)
NormShift(p, t) == IF p >= t THEN 0 ELSE 1 + NormShift(2 * p, t)

\* r / t for t <= r < 2t: what is left of it after its first i binary
\* digits, scaled back to 0..t-1, and the i-th digit itself
DivRem(r, t, i) == ((r - t) * Pow2Mod(i - 1, t)) % t
DivBit(r, t, i) == IF i = 1 THEN 1 ELSE (2 * DivRem(r, t, i - 1)) \div t

\* bits + 1; carry is 1 when every bit was 1
IncBits(bits) ==
    LET zeros == { i \in 1..Len(bits) : bits[i] = 0 }
    IN  IF zeros = {} THEN [bits |-> [i \in 1..Len(bits) |-> 0], carry |-> 1]
        ELSE LET j == CHOOSE i \in zeros : \A k \in zeros : k <= i
             IN  [bits |-> [i \in 1..Len(bits) |->
                               IF i < j THEN bits[i] ELSE IF i = j THEN 1 ELSE 0],
                  carry |-> 0]

\* round to nearest, ties to even: m are the kept bits, guard the first
\* dropped bit, sticky whether any later dropped bit is set
RoundNearestEven(e, m, guard, sticky) ==
    IF guard = 1 /\ (sticky \/ m[Len(m)] = 1)
    THEN LET up == IncBits(m)
         IN  IF up.carry = 1
             THEN [e |-> e + 1, m |-> <<1>> \o SubSeq(up.bits, 1, Len(m) - 1)]
             ELSE [e |-> e, m |-> up.bits]
    ELSE [e |-> e, m |-> m]

\* passed / total for 0 < passed <= total, correctly rounded
FloatDiv(p, t) ==
    LET k == NormShift(p, t)
        r == p * Pow2(k)
    IN  RoundNearestEven(-k, [i \in 1..MantissaBits |-> DivBit(r, t, i)],
                         DivBit(r, t, MantissaBits + 1),
                         DivRem(r, t, MantissaBits + 1) # 0)

RECURSIVE BitsToInt(_)
BitsToInt(bits) ==
    IF bits = <<>> THEN 0
    ELSE 2 * BitsToInt(SubSeq(bits, 1, Len(bits) - 1)) + bits[Len(bits)]

\* the significand as LimbCount limbs of LimbBits bits, most significant first
LimbBits == 13
LimbCount == 5

ToLimbs(m) ==
    LET width == LimbBits * LimbCount
        padded == [i \in 1..width |->
                      IF i <= width - Len(m) THEN 0 ELSE m[i - (width - Len(m))]]
    IN  [j \in 1..LimbCount |->
            BitsToInt(SubSeq(padded, LimbBits * (j - 1) + 1, LimbBits * j))]

\* limbs * c: the carry out of limb j
RECURSIVE MulCarry(_, _, _)
MulCarry(limbs, c, j) ==
    IF j > Len(limbs) THEN 0
    ELSE (limbs[j] * c + MulCarry(limbs, c, j + 1)) \div Pow2(LimbBits)

MulLimbs(limbs, c) ==
    [j \in 1..Len(limbs) |-> (limbs[j] * c + MulCarry(limbs, c, j + 1)) % Pow2(LimbBits)]

\* the bits of the limbs, without the leading zeros
FromLimbs(limbs) ==
    LET width == LimbBits * Len(limbs)
        bit(q) == (limbs[((q - 1) \div LimbBits) + 1]
                     \div Pow2(LimbBits - 1 - ((q - 1) % LimbBits))) % 2
        ones == { q \in 1..width : bit(q) = 1 }
        first == CHOOSE q \in ones : \A k \in ones : q <= k
    IN  [i \in 1..(width - first + 1) |-> bit(first + i - 1)]

AnySet(bits) == \E i \in 1..Len(bits) : bits[i] = 1

\* x * c for a small positive integer c, correctly rounded
FloatMulInt(x, c) ==
    LET prod == FromLimbs(MulLimbs(ToLimbs(x.m), c))
        extra == Len(prod) - MantissaBits
    IN  IF extra = 0 THEN [e |-> x.e, m |-> prod]
        ELSE RoundNearestEven(x.e + extra, SubSeq(prod, 1, MantissaBits),
                              prod[MantissaBits + 1],
                              AnySet(SubSeq(prod, MantissaBits + 2, Len(prod))))

\* int(x) for a positive double below 2^31: the bits left of the binary point
FloatToInt(x) == IF x.e < 0 THEN 0 ELSE BitsToInt(SubSeq(x.m, 1, x.e + 1))

PassedCount(results) == Cardinality({ i \in 1..Len(results) : results[i].passed })

calculate_score(test_results) ==
    IF test_results = <<>> THEN 0
    ELSE LET passed == PassedCount(test_results)
             total == Len(test_results)
         IN  IF passed = 0 THEN 0
             ELSE FloatToInt(FloatMulInt(FloatDiv(passed, total), 100))

----------------------------------------------------------------------------
(* Settings (app.config) *)

SANDBOX_TIMEOUT == 2
MAX_OUTPUT_SIZE == 2

----------------------------------------------------------------------------
(* What a submission's code does when it runs: the text it writes to       *)
(* stdout and stderr, its exit status, how long it runs (dur), and whether *)
(* it ends at all.                                                         *)

Program(out, err, code, dur, halts) ==
    [out |-> out, err |-> err, code |-> code, dur |-> dur, halts |-> halts]

Programs ==
    { Program(<<"a">>, <<>>, 0, 0, TRUE),
      Program(<<"b">>, <<>>, 0, 0, TRUE),
      Program(<<>>, <<"e">>, 1, 0, TRUE),
      Program(<<"a", "a", "a">>, <<"e", "e", "e">>, 0, 0, TRUE),
      Program(<<"a">>, <<>>, 0, 1, TRUE),
      Program(<<>>, <<>>, 0, 0, FALSE) }

NoProgram == Program(<<>>, <<>>, 0, 0, TRUE)

Languages == {"python", "bash", "ruby"}

\* timeout: int = None; 0 stands for None (both are falsy); the parameter
\* takes any integer, a negative one included
TimeoutArgs == {0, 1, -1}

StillRunningAt(p, t) == ~p.halts \/ p.dur >= t

----------------------------------------------------------------------------
(* Results shared by both runners *)

TruncationMarker ==
    <<"\n", ".", ".", ".", " ", "(", "o", "u", "t", "p", "u", "t", " ",
      "t", "r", "u", "n", "c", "a", "t", "e", "d", ")">>

Truncate(text) ==
    IF Len(text) > MAX_OUTPUT_SIZE
    THEN SubSeq(text, 1, MAX_OUTPUT_SIZE) \o TruncationMarker
    ELSE text

\* timeout = timeout or settings.SANDBOX_TIMEOUT
ResolveTimeout(arg) == IF arg # 0 THEN arg ELSE SANDBOX_TIMEOUT

UnsupportedResult(lang) ==
    ExecResult(<<>>, <<"Unsupported language: ", lang>>, 1, 0)

ErrorResult(text) == ExecResult(<<>>, <<"Execution error: ", text>>, 1, 0)

TimeoutResult(t) ==
    ExecResult(<<>>, <<"Execution timed out after ", ToString(t), " seconds">>, 124, t)

\* a return statement of execute_code; the with / finally block around it
\* has removed the staging directory or file by the time the caller resumes
Return(result, fault) ==
    /\ bres' = Some(result)
    /\ bfault' = fault
    /\ bpc' = "returned"
    /\ staging' = IF staging = "present" THEN "removed" ELSE staging

\* an exception leaving execute_code; cleaned says whether a with / finally
\* block covers the place it was raised in
Raise(fault, cleaned) ==
    /\ bfault' = fault
    /\ bpc' = "raised"
    /\ staging' = IF cleaned /\ staging = "present" THEN "removed" ELSE staging
    /\ UNCHANGED bres

----------------------------------------------------------------------------
(* docker_runner.py: DockerSandbox.execute_code *)

\* an image map that knows every language
ImageMapAnyLanguage == Languages

ImageMap == {"python", "bash"}

\* a sandbox that takes its client for granted
ClientMissingIgnored == FALSE

\* if not self.client
ClientMissing == ~client_ok

ClientUnavailableResult ==
    ExecResult(<<>>, <<"Docker client not available">>, 1, 0)

\* mem_limit= and cpu_quota= of containers.run, timeout= of container.wait,
\* the truncation of the logs
DockerLimits == {"memory", "cpu", "timeout", "output"}

\* timeout= of subprocess.run and the truncation of both streams; no argument
\* bounds memory or CPU
SubprocessLimits == {"timeout", "output"}

DkStart ==
    /\ bpc = "start" /\ backend = "docker"
    /\ IF ClientMissing
       THEN /\ Return(ClientUnavailableResult, "none")
            /\ UNCHANGED timeout
       ELSE /\ timeout' = ResolveTimeout(timeout_arg)
            /\ IF language \notin ImageMap
               THEN Return(UnsupportedResult(language), "none")
               ELSE /\ bpc' = "d_stage"
                    /\ UNCHANGED <<bres, bfault, staging>>
    /\ UNCHANGED <<backend, language, timeout_arg, prog, ctr, proc, expired, envvars>>
    /\ UNCHANGED <<limits, net, vvars, svars, fvars, gvars, cvars>>

\* with tempfile.TemporaryDirectory() ...: open(code_file, "w"); f.write(code)
DkStage ==
    /\ bpc = "d_stage"
    /\ \/ /\ staging' = "present"
          /\ bpc' = "d_image"
          /\ UNCHANGED <<bres, bfault>>
       \/ /\ staging' = "removed"
          /\ bpc' = "raised"
          /\ bfault' = "write"
          /\ UNCHANGED bres
    /\ UNCHANGED <<backend, language, timeout_arg, prog, timeout, ctr, proc,
                   expired, envvars>>
    /\ UNCHANGED <<limits, net, vvars, svars, fvars, gvars, cvars>>

\* self.client.images.get(image): found, ImageNotFound, or another error
DkImageGet ==
    /\ bpc = "d_image"
    /\ \/ /\ image_present
          /\ bpc' = "d_run"
          /\ UNCHANGED <<bres, bfault, staging>>
       \/ /\ ~image_present
          /\ bpc' = "d_build"
          /\ UNCHANGED <<bres, bfault, staging>>
       \/ Raise("image_lookup", TRUE)
    /\ UNCHANGED <<backend, language, timeout_arg, prog, timeout, ctr, proc,
                   expired, envvars>>
    /\ UNCHANGED <<limits, net, vvars, svars, fvars, gvars, cvars>>

\* _build_image: builds, or prints and re-raises
DkBuildImage ==
    /\ bpc = "d_build"
    /\ \/ /\ image_present' = TRUE
          /\ bpc' = "d_run"
          /\ UNCHANGED <<bres, bfault, staging>>
       \/ /\ Raise("build", TRUE)
          /\ UNCHANGED image_present
    /\ UNCHANGED <<backend, language, timeout_arg, prog, timeout, ctr, proc,
                   expired, client_ok>>
    /\ UNCHANGED <<limits, net, vvars, svars, fvars, gvars, cvars>>

\* self.client.containers.run(..., detach=True, remove=True)
DkRun ==
    /\ bpc = "d_run"
    /\ \/ /\ ctr' = "running"
          /\ limits' = DockerLimits
          /\ bpc' = "d_wait"
          /\ UNCHANGED <<bres, bfault, staging>>
       \/ /\ Return(ErrorResult("launch"), "launch")
          /\ UNCHANGED <<ctr, limits>>
    /\ UNCHANGED <<backend, language, timeout_arg, prog, timeout, proc,
                   expired, net, envvars>>
    /\ UNCHANGED <<vvars, svars, fvars, gvars, cvars>>

\* container.wait(timeout=timeout) returns the status of the exited container
DkWaitDone ==
    /\ bpc = "d_wait" /\ ctr = "exited"
    /\ bpc' = "d_logs"
    /\ UNCHANGED <<backend, language, timeout_arg, prog, timeout, staging, ctr,
                   proc, bres, bfault, expired, envvars>>
    /\ UNCHANGED <<limits, net, vvars, svars, fvars, gvars, cvars>>

\* container.wait on a container the runtime has already removed: NotFound,
\* caught by except Exception
DkWaitGone ==
    /\ bpc = "d_wait" /\ ctr = "removed"
    /\ Return(ErrorResult("wait"), "wait")
    /\ UNCHANGED <<backend, language, timeout_arg, prog, timeout, ctr, proc,
                   expired, envvars>>
    /\ UNCHANGED <<limits, net, vvars, svars, fvars, gvars, cvars>>

\* container.wait fails in the runtime (the daemon does not answer) while
\* the container runs: caught by except Exception; nothing stops the container
DkWaitFault ==
    /\ bpc = "d_wait" /\ ctr = "running"
    /\ Return(ErrorResult("wait"), "runtime")
    /\ UNCHANGED <<backend, language, timeout_arg, prog, timeout, ctr, proc,
                   expired, envvars>>
    /\ UNCHANGED <<limits, net, vvars, svars, fvars, gvars, cvars>>

\* container.wait raises when the timeout passes: caught by except Exception;
\* nothing stops the container (a timeout that is not positive is refused by
\* the HTTP client: DkWaitFault)
DkWaitTimeout ==
    /\ bpc = "d_wait" /\ ctr = "running"
    /\ timeout > 0
    /\ StillRunningAt(prog, timeout)
    /\ expired' = TRUE
    /\ Return(ErrorResult("timeout"), "none")
    /\ UNCHANGED <<backend, language, timeout_arg, prog, timeout, ctr, proc, envvars>>
    /\ UNCHANGED <<limits, net, vvars, svars, fvars, gvars, cvars>>

\* the combined stream container.logs(stdout=True, stderr=True) returns
CombinedLogs(p) == p.out \o p.err

\* what execute_code returns for a container that ran to its end:
\* stdout = output, stderr = "", exit_code = result["StatusCode"]
DockerCompleted(p) ==
    ExecResult(Truncate(CombinedLogs(p)), <<>>, p.code, p.dur)

\* container.logs(...), truncation, return; or logs raise (the container is
\* gone, or the runtime fails), caught by except Exception
DkLogs ==
    /\ bpc = "d_logs"
    /\ \/ /\ ctr = "exited"
          /\ Return(DockerCompleted(prog), "none")
       \/ /\ ctr = "removed"
          /\ Return(ErrorResult("logs"), "gone")
       \/ Return(ErrorResult("logs"), "logs")
    /\ UNCHANGED <<backend, language, timeout_arg, prog, timeout, ctr, proc,
                   expired, envvars>>
    /\ UNCHANGED <<limits, net, vvars, svars, fvars, gvars, cvars>>

\* the code in the container ends; code that runs past the timeout ends only
\* after wait has given up
ContainerExit ==
    /\ ctr = "running" /\ prog.halts
    /\ ~StillRunningAt(prog, timeout) \/ bpc \notin {"d_wait"}
    /\ ctr' = "exited"
    /\ UNCHANGED <<backend, language, timeout_arg, prog, bpc, timeout, staging,
                   proc, bres, bfault, expired, envvars>>
    /\ UNCHANGED <<limits, net, vvars, svars, fvars, gvars, cvars>>

\* remove=True: the runtime removes the container once it has exited
ContainerAutoRemove ==
    /\ ctr = "exited"
    /\ ctr' = "removed"
    /\ UNCHANGED <<backend, language, timeout_arg, prog, bpc, timeout, staging,
                   proc, bres, bfault, expired, envvars>>
    /\ UNCHANGED <<limits, net, vvars, svars, fvars, gvars, cvars>>

DockerNext ==
    \/ DkStart \/ DkStage \/ DkImageGet \/ DkBuildImage \/ DkRun
    \/ DkWaitDone \/ DkWaitGone \/ DkWaitFault \/ DkWaitTimeout \/ DkLogs
    \/ ContainerExit \/ ContainerAutoRemove

----------------------------------------------------------------------------
(* subprocess_runner.py: SubprocessSandbox.execute_code *)

SpStart ==
    /\ bpc = "start" /\ backend = "subprocess"
    /\ timeout' = ResolveTimeout(timeout_arg)
    /\ IF language \in {"python", "bash"}
       THEN /\ bpc' = "s_write"
            /\ UNCHANGED <<bres, bfault, staging>>
       ELSE Return(UnsupportedResult(language), "none")
    /\ UNCHANGED <<backend, language, timeout_arg, prog, ctr, proc, expired, envvars>>
    /\ UNCHANGED <<limits, net, vvars, svars, fvars, gvars, cvars>>

\* with tempfile.NamedTemporaryFile(mode='w', delete=False) as f: f.write(code)
\* runs before the try block: a fault leaves the function, and the file if
\* it was created already
SpWrite ==
    /\ bpc = "s_write"
    /\ \/ /\ staging' = "present"
          /\ bpc' = IF language = "bash" THEN "s_chmod" ELSE "s_run"
          /\ UNCHANGED <<bres, bfault>>
       \/ \E created \in BOOLEAN :
            /\ staging' = IF created THEN "present" ELSE "none"
            /\ bpc' = "raised"
            /\ bfault' = "write"
            /\ UNCHANGED bres
    /\ UNCHANGED <<backend, language, timeout_arg, prog, timeout, ctr, proc,
                   expired, envvars>>
    /\ UNCHANGED <<limits, net, vvars, svars, fvars, gvars, cvars>>

\* os.chmod(temp_file, 0o755), before the try block
SpChmod ==
    /\ bpc = "s_chmod"
    /\ \/ /\ bpc' = "s_run"
          /\ UNCHANGED <<bres, bfault, staging>>
       \/ Raise("chmod", FALSE)
    /\ UNCHANGED <<backend, language, timeout_arg, prog, timeout, ctr, proc,
                   expired, envvars>>
    /\ UNCHANGED <<limits, net, vvars, svars, fvars, gvars, cvars>>

\* subprocess.run starts the interpreter, or fails to (except Exception)
SpLaunch ==
    /\ bpc = "s_run"
    /\ \/ /\ proc' = "running"
          /\ limits' = SubprocessLimits
          /\ bpc' = "s_wait"
          /\ UNCHANGED <<bres, bfault, staging>>
       \/ /\ Return(ErrorResult("launch"), "launch")
          /\ UNCHANGED <<proc, limits>>
    /\ UNCHANGED <<backend, language, timeout_arg, prog, timeout, ctr,
                   expired, net, envvars>>
    /\ UNCHANGED <<vvars, svars, fvars, gvars, cvars>>

\* what _execute_python / _execute_bash return for a process that ran to
\* its end
SubprocessCompleted(p) ==
    ExecResult(Truncate(p.out), Truncate(p.err), p.code, p.dur)

\* the process ends within the timeout: truncate, return, finally unlink
SpFinish ==
    /\ bpc = "s_wait" /\ proc = "running"
    /\ ~StillRunningAt(prog, timeout)
    /\ proc' = "exited"
    /\ Return(SubprocessCompleted(prog), "none")
    /\ UNCHANGED <<backend, language, timeout_arg, prog, timeout, ctr,
                   expired, envvars>>
    /\ UNCHANGED <<limits, net, vvars, svars, fvars, gvars, cvars>>

\* subprocess.run kills the process when the timeout passes and raises
\* TimeoutExpired
SpTimeout ==
    /\ bpc = "s_wait" /\ proc = "running"
    /\ StillRunningAt(prog, timeout)
    /\ proc' = "killed"
    /\ expired' = TRUE
    /\ Return(TimeoutResult(timeout), "none")
    /\ UNCHANGED <<backend, language, timeout_arg, prog, timeout, ctr, envvars>>
    /\ UNCHANGED <<limits, net, vvars, svars, fvars, gvars, cvars>>

SubprocessNext ==
    SpStart \/ SpWrite \/ SpChmod \/ SpLaunch \/ SpFinish \/ SpTimeout

----------------------------------------------------------------------------
(* The network the executed code sees *)

\* containers.run(network_mode="none")
DockerNetwork == "none"

\* subprocess.run starts the interpreter in the server's own network; the
\* restricted environment only sets http_proxy / https_proxy variables
SubprocessNetwork == "host"

LaunchedNetwork == IF ctr # "none" THEN DockerNetwork ELSE SubprocessNetwork

\* the running code opens a socket to an external host
ProgramConnects ==
    /\ ctr = "running" \/ proc = "running"
    /\ net = "none"
    /\ \/ /\ LaunchedNetwork = "host"
          /\ net' = "connected"
       \/ net' = "failed"
    /\ UNCHANGED <<backend, language, timeout_arg, prog, bpc, timeout, staging,
                   ctr, proc, bres, bfault, expired, limits, envvars>>
    /\ UNCHANGED <<vvars, svars, fvars, gvars, cvars>>

----------------------------------------------------------------------------
(* SpecBackend: one execute_code call on either sandbox *)

IdleBackend ==
    /\ backend = "docker"
    /\ language = "python"
    /\ timeout_arg = 0
    /\ prog = NoProgram
    /\ bpc = "idle"
    /\ timeout = 0
    /\ staging = "none"
    /\ ctr = "none"
    /\ proc = "none"
    /\ bres = NoneV
    /\ bfault = "none"
    /\ expired = FALSE
    /\ limits = {}
    /\ net = "none"

InitEnv ==
    /\ client_ok \in BOOLEAN
    /\ image_present \in BOOLEAN

\* sandbox.execute_code(code, language, timeout) is called
Call(b, lang, targ, p) ==
    /\ bpc = "idle"
    /\ backend' = b
    /\ language' = lang
    /\ timeout_arg' = targ
    /\ prog' = p
    /\ bpc' = "start"
    /\ UNCHANGED <<timeout, staging, ctr, proc, bres, bfault, expired, limits,
                   net, envvars>>

BackendCall ==
    \E b \in {"docker", "subprocess"}, lang \in Languages,
       targ \in TimeoutArgs, p \in Programs :
        Call(b, lang, targ, p) /\ UNCHANGED <<vvars, svars, fvars, gvars, cvars>>

----------------------------------------------------------------------------
(* SpecValidate: validate_test_cases applied to every execution result and *)
(* every list of at most MaxTests test cases.                              *)

ValidatorStdouts == { <<>>, <<"a">>, <<" ", "a">>, <<"b">> }

ValidatorExecResults ==
    { ExecResult(o, <<>>, 0, 0) : o \in ValidatorStdouts }
    \cup { ExecResult(<<>>, <<"e">>, 1, 0),
           ExecResult(<<"a">>, <<>>, 2, 0),
           ExecResult(<<>>, <<"Execution timed out">>, 124, 2) }

IdleValidate ==
    /\ v_pc = "idle"
    /\ v_exec = ExecResult(<<>>, <<>>, 0, 0)
    /\ v_cases = <<>>
    /\ v_out = Returned(<<>>)

InitValidate ==
    /\ v_pc = "call"
    /\ v_exec \in ValidatorExecResults
    /\ v_cases \in SeqsUpTo(TestCases, MaxTests)
    /\ v_out = Returned(<<>>)

Validate ==
    /\ v_pc = "call"
    /\ v_out' = validate_test_cases(v_exec, v_cases)
    /\ v_pc' = IF v_out'.raised THEN "raised" ELSE "returned"
    /\ UNCHANGED <<v_exec, v_cases>>

----------------------------------------------------------------------------
(* SpecScore: calculate_score applied to lists of up to MaxScoreTests      *)
(* results, of which the first s_passed passed.                            *)

ScoreInput(total, passed) ==
    [i \in 1..total |->
        IF i <= passed
        THEN TestResult(FmtTestIdx(i), TRUE, NoneV, NoneV)
        ELSE TestResult(FmtTestIdx(i), FALSE, NoneV, Some(<<"Non-zero exit code">>))]

IdleScore ==
    /\ s_pc = "idle"
    /\ s_results = <<>>
    /\ s_score = 0

InitScore ==
    /\ s_pc = "call"
    /\ \E total \in 0..MaxScoreTests : \E passed \in 0..total :
          s_results = ScoreInput(total, passed)
    /\ s_score = 0

Score ==
    /\ s_pc = "call"
    /\ s_score' = calculate_score(s_results)
    /\ s_pc' = "returned"
    /\ UNCHANGED s_results

----------------------------------------------------------------------------

----------------------------------------------------------------------------
(* grading_service.py and api/v1/exercises.py *)

PASS_THRESHOLD == 70

GradingPlaceholder == <<"Grading in progress...">>

\* the "- {tr.test_id}: {tr.error_message}\n" lines of the failing tests
RECURSIVE FailedItems(_)
FailedItems(results) ==
    IF results = <<>> THEN <<>>
    ELSE LET tr == Head(results)
         IN  (IF tr.passed THEN <<>>
              ELSE <<"- ", tr.test_id, ": ">>
                   \o (IF tr.error_message = NoneV THEN <<"None">> ELSE tr.error_message[1])
                   \o <<"\n">>)
             \o FailedItems(Tail(results))

Counts(passed_tests, total_tests) ==
    <<ToString(passed_tests), "/", ToString(total_tests)>>

generate_feedback(test_results, score, passed) ==
    LET total_tests == Len(test_results)
        passed_tests == PassedCount(test_results)
    IN  IF passed
        THEN <<"Great job! You passed all ">> \o Counts(passed_tests, total_tests)
             \o <<" test cases.\n\n", "Your solution is correct.">>
        ELSE IF passed_tests = 0
        THEN <<"None of the test cases passed (">> \o Counts(passed_tests, total_tests)
             \o <<").\n\n", "Let's review the requirements:\n">>
             \o FailedItems(test_results)
             \o <<"\nTip: Try running your code locally first to see the output.">>
        ELSE <<"Some test cases passed (">> \o Counts(passed_tests, total_tests)
             \o <<"), but not all.\n\n", "Failed tests:\n">>
             \o FailedItems(test_results)
             \o <<"\nYou're close! Review the failed test cases and try again.">>

\* passed = score >= 70 in grade_exercise
GradePassed(score) == score >= PASS_THRESHOLD

\* the result endpoint with a pass mark of its own
ResultPassedOwnMark(score) == 2 * score >= PASS_THRESHOLD

\* "passed": attempt.get("score", 0) >= 70 in get_exercise_result
ResultPassed(score) == score >= PASS_THRESHOLD

Attempt(execution_result, test_results, score, feedback, graded_at) ==
    [execution_result |-> execution_result, test_results |-> test_results,
     score |-> score, feedback |-> feedback, graded_at |-> graded_at]

GradeReturn(error, score, passed, test_results, feedback, execution_result) ==
    [error |-> error, score |-> score, passed |-> passed,
     test_results |-> test_results, feedback |-> feedback,
     execution_result |-> execution_result]

\* test_cases of the exercise document: dicts with a test_id, as the seed
\* script and handle_generate_exercise store them (expected_output is
\* stored as received)
ExerciseCaseLists ==
    { <<>>,
      <<TC("dict", TRUE, "t1", "dict", "str", <<"a">>)>>,
      <<TC("dict", TRUE, "t1", "dict", "str", <<"a", "\n">>),
        TC("dict", TRUE, "t2", "dict", "str", <<" ">>)>>,
      <<TC("dict", TRUE, "t1", "dict", "str", <<"a">>),
        TC("dict", TRUE, "t6", "dict", "num", <<>>)>> }

\* submit_exercise: 404 unless the exercise exists; insert the attempt record
\* and queue grade_exercise as a background task
Submit ==
    /\ gpc = "none" /\ exercise_present
    /\ \E p \in Programs, lang \in Languages :
          g_prog' = p /\ g_lang' = lang
    /\ attempt' = Some(Attempt(NoneV, <<>>, 0, GradingPlaceholder, FALSE))
    /\ gpc' = "queued"
    /\ UNCHANGED <<exercise_present, ex_cases, g_cases, g_exec, g_results,
                   g_score, g_passed, g_feedback, g_ret, poll>>
    /\ UNCHANGED <<vvars, svars, fvars, envvars, bvars, cvars>>

\* the exercise catalog drops the exercise
CatalogRemove ==
    /\ exercise_present
    /\ exercise_present' = FALSE
    /\ UNCHANGED <<ex_cases, attempt, gpc, g_lang, g_prog, g_cases, g_exec,
                   g_results, g_score, g_passed, g_feedback, g_ret, poll>>
    /\ UNCHANGED <<vvars, svars, fvars, envvars, bvars, cvars>>

\* a lookup that always finds something
ExerciseMissingNever == FALSE

\* if not exercise
ExerciseMissing == ~exercise_present

NotFoundReturn ==
    GradeReturn(Some("Exercise not found"), 0, FALSE, <<>>, <<>>, NoneV)

\* grade_exercise: exercise = await db.exercises.find_one(...); not found
\* returns at once
GradeFind ==
    /\ gpc = "queued"
    /\ IF ~ExerciseMissing
       THEN /\ g_cases' = ex_cases
            /\ gpc' = "execute"
            /\ UNCHANGED g_ret
       ELSE /\ g_ret' = Some(NotFoundReturn)
            /\ gpc' = "failed"
            /\ UNCHANGED g_cases
    /\ UNCHANGED <<exercise_present, ex_cases, attempt, g_lang, g_prog, g_exec,
                   g_results, g_score, g_passed, g_feedback, poll>>
    /\ UNCHANGED <<vvars, svars, fvars, envvars, bvars, cvars>>

\* exec_result = sandbox.execute_code(code, language): the docker_runner
\* singleton, with the default timeout
GradeExecute ==
    /\ gpc = "execute"
    /\ Call("docker", g_lang, 0, g_prog)
    /\ gpc' = "executing"
    /\ UNCHANGED <<exercise_present, ex_cases, attempt, g_lang, g_prog, g_cases,
                   g_exec, g_results, g_score, g_passed, g_feedback, g_ret, poll>>
    /\ UNCHANGED <<vvars, svars, fvars, cvars>>

\* execute_code returned: build the ExecutionResult
GradeExecuted ==
    /\ gpc = "executing" /\ bpc = "returned"
    /\ g_exec' = bres[1]
    /\ gpc' = "validate"
    /\ UNCHANGED <<exercise_present, ex_cases, attempt, g_lang, g_prog, g_cases,
                   g_results, g_score, g_passed, g_feedback, g_ret, poll>>
    /\ UNCHANGED <<vvars, svars, fvars, envvars, bvars, cvars>>

\* execute_code raised: grade_exercise has no handler, the task ends
GradeExecuteRaised ==
    /\ gpc = "executing" /\ bpc = "raised"
    /\ gpc' = "aborted"
    /\ UNCHANGED <<exercise_present, ex_cases, attempt, g_lang, g_prog, g_cases,
                   g_exec, g_results, g_score, g_passed, g_feedback, g_ret, poll>>
    /\ UNCHANGED <<vvars, svars, fvars, envvars, bvars, cvars>>

\* test_results = validate_test_cases(execution_result, test_cases, language)
GradeValidate ==
    /\ gpc = "validate"
    /\ LET out == validate_test_cases(g_exec, g_cases)
       IN  IF out.raised
           THEN gpc' = "aborted" /\ UNCHANGED g_results
           ELSE gpc' = "score" /\ g_results' = out.value
    /\ UNCHANGED <<exercise_present, ex_cases, attempt, g_lang, g_prog, g_cases,
                   g_exec, g_score, g_passed, g_feedback, g_ret, poll>>
    /\ UNCHANGED <<vvars, svars, fvars, envvars, bvars, cvars>>

\* score, passed, feedback
GradeScore ==
    /\ gpc = "score"
    /\ g_score' = calculate_score(g_results)
    /\ g_passed' = GradePassed(g_score')
    /\ g_feedback' = generate_feedback(g_results, g_score', g_passed')
    /\ gpc' = "persist"
    /\ UNCHANGED <<exercise_present, ex_cases, attempt, g_lang, g_prog, g_cases,
                   g_exec, g_results, g_ret, poll>>
    /\ UNCHANGED <<vvars, svars, fvars, envvars, bvars, cvars>>

\* an update that only stamps graded_at
PersistedStampOnly(execution_result, test_results, score, feedback) ==
    Attempt(NoneV, <<>>, 0, GradingPlaceholder, TRUE)

\* the "$set" document of the update: all five fields in one write
PersistedFields(execution_result, test_results, score, feedback) ==
    Attempt(Some(execution_result), test_results, score, feedback, TRUE)

\* await db.exercise_attempts.update_one({"_id": submission_id}, {"$set": ...})
GradePersist ==
    /\ gpc = "persist"
    /\ attempt' = Some(PersistedFields(g_exec, g_results, g_score, g_feedback))
    /\ gpc' = "return"
    /\ UNCHANGED <<exercise_present, ex_cases, g_lang, g_prog, g_cases, g_exec,
                   g_results, g_score, g_passed, g_feedback, g_ret, poll>>
    /\ UNCHANGED <<vvars, svars, fvars, envvars, bvars, cvars>>

GradeDone ==
    /\ gpc = "return"
    /\ g_ret' = Some(GradeReturn(NoneV, g_score, g_passed, g_results, g_feedback,
                                 Some(g_exec)))
    /\ gpc' = "done"
    /\ UNCHANGED <<exercise_present, ex_cases, attempt, g_lang, g_prog, g_cases,
                   g_exec, g_results, g_score, g_passed, g_feedback, poll>>
    /\ UNCHANGED <<vvars, svars, fvars, envvars, bvars, cvars>>

\* a status that does not look at the record
ResultStatusEager(att) == "completed"

\* status_value = "completed" if attempt.get("graded_at") else "grading"
ResultStatus(att) == IF att.graded_at THEN "completed" ELSE "grading"

\* get_exercise_result on the submission
get_exercise_result(att) ==
    [status |-> ResultStatus(att),
     score |-> att.score,
     passed |-> ResultPassed(att.score),
     test_results |-> att.test_results,
     feedback |-> att.feedback,
     next_step |-> IF ResultPassed(att.score)
                   THEN "Continue to next exercise"
                   ELSE "Review feedback and try again"]

Poll ==
    /\ attempt # NoneV
    /\ poll' = Some(get_exercise_result(attempt[1]))
    /\ UNCHANGED <<exercise_present, ex_cases, attempt, gpc, g_lang, g_prog,
                   g_cases, g_exec, g_results, g_score, g_passed, g_feedback, g_ret>>
    /\ UNCHANGED <<vvars, svars, fvars, envvars, bvars, cvars>>

IdleGrading ==
    /\ exercise_present = TRUE
    /\ ex_cases = <<>>
    /\ attempt = NoneV
    /\ gpc = "none"
    /\ g_lang = "python"
    /\ g_prog = NoProgram
    /\ g_cases = <<>>
    /\ g_exec = ExecResult(<<>>, <<>>, 0, 0)
    /\ g_results = <<>>
    /\ g_score = 0
    /\ g_passed = FALSE
    /\ g_feedback = <<>>
    /\ g_ret = NoneV
    /\ poll = NoneV

InitGrading ==
    /\ exercise_present = TRUE
    /\ ex_cases \in ExerciseCaseLists
    /\ attempt = NoneV
    /\ gpc = "none"
    /\ g_lang = "python"
    /\ g_prog = NoProgram
    /\ g_cases = <<>>
    /\ g_exec = ExecResult(<<>>, <<>>, 0, 0)
    /\ g_results = <<>>
    /\ g_score = 0
    /\ g_passed = FALSE
    /\ g_feedback = <<>>
    /\ g_ret = NoneV
    /\ poll = NoneV

----------------------------------------------------------------------------
(* SpecFeedback: the score, passed and feedback steps of grade_exercise     *)
(* applied to what validate_test_cases returns for every list of at most   *)
(* MaxFeedbackTests test cases of an exercise record.                      *)

FeedbackId(i) == "t" \o ToString(i)

FeedbackExpected == { <<"a">>, <<"b">> }

FeedbackCaseLists ==
    UNION { { [i \in 1..k |-> TC("dict", TRUE, FeedbackId(i), "dict", "str", e[i])] :
                e \in [1..k -> FeedbackExpected] } : k \in 0..MaxFeedbackTests }

FeedbackExecResults ==
    { ExecResult(<<"a">>, <<>>, 0, 0),
      ExecResult(<<"b">>, <<>>, 0, 0),
      ExecResult(<<>>, <<"e">>, 1, 0) }

FeedbackInputs ==
    { validate_test_cases(er, cases).value :
        er \in FeedbackExecResults, cases \in FeedbackCaseLists }

IdleFeedback ==
    /\ f_pc = "idle"
    /\ f_results = <<>>
    /\ f_score = 0
    /\ f_passed = FALSE
    /\ f_feedback = <<>>

InitFeedback ==
    /\ f_pc = "call"
    /\ f_results \in FeedbackInputs
    /\ f_score = 0
    /\ f_passed = FALSE
    /\ f_feedback = <<>>

\* score = calculate_score(test_results); passed = score >= 70;
\* feedback = generate_feedback(test_results, score, passed)
Feedback ==
    /\ f_pc = "call"
    /\ f_score' = calculate_score(f_results)
    /\ f_passed' = GradePassed(f_score')
    /\ f_feedback' = generate_feedback(f_results, f_score', f_passed')
    /\ f_pc' = "returned"
    /\ UNCHANGED f_results

----------------------------------------------------------------------------

(* The server process: submit_exercise handlers and grade_exercise
   background tasks of several requests, all coroutines of one event loop
   (uvicorn.run starts one process; BackgroundTasks awaits an "async def"
   task on the loop).  A step is the code between two awaits. *)

MaxRequests == 2
Reqs == 1..MaxRequests
Users == {"u1", "u2"}
NoRequest == 0

\* an exercise_attempts document, as far as numbering and grading go
AttemptDoc(id, user_id, attempt_number, graded_at) ==
    [id |-> id, user_id |-> user_id, attempt_number |-> attempt_number,
     graded_at |-> graded_at]

\* db.exercise_attempts.count_documents({"user_id": ..., "exercise_id": ...})
count_documents(docs, user_id) ==
    Cardinality({d \in docs : d.user_id = user_id})

\* a coroutine can be resumed: no coroutine is inside a synchronous call
LoopFree == loop = NoRequest

ServerFrame == UNCHANGED <<vvars, svars, fvars, envvars, bvars, gvars>>

\* the exercise is deleted from db.exercises
ExerciseDeleted ==
    /\ LoopFree
    /\ c_exercise
    /\ c_exercise' = FALSE
    /\ UNCHANGED <<q_user, q_pc, q_count, stored, loop>>
    /\ ServerFrame

\* submit_exercise: await db.exercises.find_one(...), 404 if missing
SubmitFind(r) ==
    /\ LoopFree
    /\ q_pc[r] = "new"
    /\ q_pc' = [q_pc EXCEPT ![r] = IF c_exercise THEN "count" ELSE "rejected"]
    /\ UNCHANGED <<c_exercise, q_user, q_count, stored, loop>>
    /\ ServerFrame

\* attempt_count = await db.exercise_attempts.count_documents(...)
SubmitCount(r) ==
    /\ LoopFree
    /\ q_pc[r] = "count"
    /\ q_count' = [q_count EXCEPT ![r] = count_documents(stored, q_user[r])]
    /\ q_pc' = [q_pc EXCEPT ![r] = "insert"]
    /\ UNCHANGED <<c_exercise, q_user, stored, loop>>
    /\ ServerFrame

\* await db.exercise_attempts.insert_one(attempt); add_task; return
SubmitInsert(r) ==
    /\ LoopFree
    /\ q_pc[r] = "insert"
    /\ stored' = stored \cup {AttemptDoc(r, q_user[r], q_count[r] + 1, FALSE)}
    /\ q_pc' = [q_pc EXCEPT ![r] = "queued"]
    /\ UNCHANGED <<c_exercise, q_user, q_count, loop>>
    /\ ServerFrame

\* grade_exercise starts: await db.exercises.find_one(...)
TaskFind(r) ==
    /\ LoopFree
    /\ q_pc[r] = "queued"
    /\ q_pc' = [q_pc EXCEPT ![r] = IF c_exercise THEN "execute" ELSE "failed"]
    /\ UNCHANGED <<c_exercise, q_user, q_count, stored, loop>>
    /\ ServerFrame

\* exec_result = sandbox.execute_code(code, language): a plain call, the
\* coroutine does not yield while the container runs
TaskExecuteCall(r) ==
    /\ LoopFree
    /\ q_pc[r] = "execute"
    /\ loop' = r
    /\ q_pc' = [q_pc EXCEPT ![r] = "executing"]
    /\ UNCHANGED <<c_exercise, q_user, q_count, stored>>
    /\ ServerFrame

\* execute_code returns; validate, score and feedback are computed and the
\* coroutine reaches await db.exercise_attempts.update_one(...)
TaskExecuteReturn(r) ==
    /\ loop = r
    /\ q_pc[r] = "executing"
    /\ loop' = NoRequest
    /\ q_pc' = [q_pc EXCEPT ![r] = "persist"]
    /\ UNCHANGED <<c_exercise, q_user, q_count, stored>>
    /\ ServerFrame

\* execute_code raises: the task ends
TaskExecuteRaise(r) ==
    /\ loop = r
    /\ q_pc[r] = "executing"
    /\ loop' = NoRequest
    /\ q_pc' = [q_pc EXCEPT ![r] = "aborted"]
    /\ UNCHANGED <<c_exercise, q_user, q_count, stored>>
    /\ ServerFrame

\* the update is applied and grade_exercise returns
TaskPersist(r) ==
    /\ LoopFree
    /\ q_pc[r] = "persist"
    /\ stored' = {IF d.id = r THEN [d EXCEPT !.graded_at = TRUE] ELSE d : d \in stored}
    /\ q_pc' = [q_pc EXCEPT ![r] = "done"]
    /\ UNCHANGED <<c_exercise, q_user, q_count, loop>>
    /\ ServerFrame

\* the next step of request r's handler or background task
RequestStep(r) ==
    \/ SubmitFind(r) \/ SubmitCount(r) \/ SubmitInsert(r)
    \/ TaskFind(r) \/ TaskExecuteCall(r) \/ TaskExecuteReturn(r)
    \/ TaskExecuteRaise(r) \/ TaskPersist(r)

IdleServer ==
    /\ c_exercise = TRUE
    /\ q_user = [r \in Reqs |-> "u1"]
    /\ q_pc = [r \in Reqs |-> "new"]
    /\ q_count = [r \in Reqs |-> 0]
    /\ stored = {}
    /\ loop = NoRequest

InitServer ==
    /\ c_exercise = TRUE
    /\ q_user \in [Reqs -> Users]
    /\ q_pc = [r \in Reqs |-> "new"]
    /\ q_count = [r \in Reqs |-> 0]
    /\ stored = {}
    /\ loop = NoRequest

----------------------------------------------------------------------------

IdleEnv == client_ok = TRUE /\ image_present = TRUE

InitV == InitValidate /\ IdleScore /\ IdleFeedback /\ IdleEnv /\ IdleBackend /\ IdleGrading /\ IdleServer
NextV == Validate /\ UNCHANGED <<svars, fvars, envvars, bvars, gvars, cvars>>
SpecValidate == InitV /\ [][NextV]_vars

InitS == InitScore /\ IdleValidate /\ IdleFeedback /\ IdleEnv /\ IdleBackend /\ IdleGrading /\ IdleServer
NextS == Score /\ UNCHANGED <<vvars, fvars, envvars, bvars, gvars, cvars>>
SpecScore == InitS /\ [][NextS]_vars

InitF == InitFeedback /\ IdleValidate /\ IdleScore /\ IdleEnv /\ IdleBackend /\ IdleGrading /\ IdleServer
NextF == Feedback /\ UNCHANGED <<vvars, svars, envvars, bvars, gvars, cvars>>
SpecFeedback == InitF /\ [][NextF]_vars

InitB == IdleValidate /\ IdleScore /\ IdleFeedback /\ InitEnv /\ IdleBackend /\ IdleGrading /\ IdleServer
NextBackend == BackendCall \/ DockerNext \/ SubprocessNext \/ ProgramConnects
SpecBackend == InitB /\ [][NextBackend]_vars

Init == IdleValidate /\ IdleScore /\ IdleFeedback /\ InitEnv /\ IdleBackend /\ InitGrading /\ IdleServer
Next ==
    \/ Submit \/ CatalogRemove \/ GradeFind \/ GradeExecute \/ GradeExecuted
    \/ GradeExecuteRaised \/ GradeValidate \/ GradeScore \/ GradePersist
    \/ GradeDone \/ Poll \/ DockerNext
Spec == Init /\ [][Next]_vars

InitC == IdleValidate /\ IdleScore /\ IdleFeedback /\ IdleEnv /\ IdleBackend /\ IdleGrading /\ InitServer
NextServer ==
    \/ ExerciseDeleted
    \/ \E r \in Reqs : SubmitFind(r)
    \/ \E r \in Reqs : SubmitCount(r)
    \/ \E r \in Reqs : SubmitInsert(r)
    \/ \E r \in Reqs : TaskFind(r)
    \/ \E r \in Reqs : TaskExecuteCall(r)
    \/ \E r \in Reqs : TaskExecuteReturn(r)
    \/ \E r \in Reqs : TaskExecuteRaise(r)
    \/ \E r \in Reqs : TaskPersist(r)
SpecServer == InitC /\ [][NextServer]_vars

----------------------------------------------------------------------------
(* Properties *)

Contains(text, part) ==
    \E k \in 0..(Len(text) - Len(part)) : SubSeq(text, k + 1, k + Len(part)) = part

StartsWith(text, part) ==
    Len(text) >= Len(part) /\ SubSeq(text, 1, Len(part)) = part

\* t is s without its leading and trailing whitespace
Trimmed(s, t) ==
    \E i \in 1..(Len(s) + 1), j \in 0..Len(s) :
        /\ i <= j + 1
        /\ t = SubSeq(s, i, j)
        /\ \A k \in 1..(i - 1) : s[k] \in Whitespace
        /\ \A k \in (j + 1)..Len(s) : s[k] \in Whitespace
        /\ i <= j => s[i] \notin Whitespace /\ s[j] \notin Whitespace

EqualTrimmed(x, y) ==
    \E i \in 1..(Len(x) + 1), j \in 0..Len(x) :
        Trimmed(x, SubSeq(x, i, j)) /\ Trimmed(y, SubSeq(x, i, j))

ValidateEnded == v_pc # "call" /\ v_pc # "idle"

\* C1: for every exit code and every list of test cases, validate_test_cases
\* returns a list holding exactly one TestResult per TestCase.
C1_OneResultPerTestCase ==
    ValidateEnded => v_pc = "returned" /\ Len(v_out.value) = Len(v_cases)

\* C8: when the execution's exit code is nonzero (124 included), every
\* TestCase yields a failing TestResult whose error_message contains the
\* captured stderr, and no result carries a compared stdout.
C8_NonzeroExitFailsAll ==
    (ValidateEnded /\ v_exec.exit_code # 0) =>
        /\ v_pc = "returned"
        /\ Len(v_out.value) = Len(v_cases)
        /\ \A i \in 1..Len(v_cases) :
              /\ ~v_out.value[i].passed
              /\ v_out.value[i].error_message # NoneV
              /\ Contains(v_out.value[i].error_message[1], v_exec.stderr)
              /\ v_out.value[i].actual_output = NoneV

\* a test case whose fields can be read: a dict or a TestCase object whose
\* expected stdout, when present, is text
Readable(tc) == tc.kind \in {"dict", "obj"} /\ tc.so # "num"

HasExpectedText(tc) == tc.eo = "dict" /\ tc.so = "str" /\ tc.stdout # <<>>

\* C9: after a clean exit each readable TestCase is judged on its own: with
\* a non-empty expected stdout it passes iff expected and actual stdout are
\* equal once both are trimmed, and fails with a message quoting both
\* otherwise; with an empty or absent expected stdout it passes iff the exit
\* code is 0. The verdict does not depend on the position in the list.
C9_CleanExitVerdicts ==
    (v_pc = "returned" /\ v_exec.exit_code = 0) =>
        /\ \A i \in 1..Len(v_cases) :
              Readable(v_cases[i]) =>
                 IF HasExpectedText(v_cases[i])
                 THEN /\ v_out.value[i].passed
                            <=> EqualTrimmed(v_cases[i].stdout, v_exec.stdout)
                      /\ ~v_out.value[i].passed =>
                            /\ v_out.value[i].error_message # NoneV
                            /\ Contains(v_out.value[i].error_message[1],
                                        <<"'">> \o v_cases[i].stdout \o <<"'">>)
                            /\ Contains(v_out.value[i].error_message[1],
                                        <<"'">> \o v_exec.stdout \o <<"'">>)
                 ELSE v_out.value[i].passed <=> (v_exec.exit_code = 0)
        /\ \A i, j \in 1..Len(v_cases) :
              v_cases[i] = v_cases[j] => v_out.value[i] = v_out.value[j]

\* C9 happens: a clean exit with one case that passes only thanks to the
\* trimming and one that fails on a mismatch
C9_Witness ==
    /\ v_pc = "returned" /\ v_exec.exit_code = 0
    /\ \E i, j \in 1..Len(v_cases) :
          /\ HasExpectedText(v_cases[i]) /\ HasExpectedText(v_cases[j])
          /\ v_cases[i].stdout # v_exec.stdout
          /\ v_out.value[i].passed
          /\ ~v_out.value[j].passed

\* evaluating the test case raises on the path taken: on the nonzero-exit
\* path only reading test_id can, on the clean-exit path also .strip()
FaultsOnPath(er, tc) ==
    IF er.exit_code # 0 THEN tc.kind = "other"
    ELSE tc.kind = "other" \/ (tc.eo = "dict" /\ tc.so = "num")

IsValidationError(r) ==
    /\ ~r.passed
    /\ r.error_message # NoneV
    /\ StartsWith(r.error_message[1], <<"Validation error: ">>)

\* C10: a fault while evaluating one TestCase is confined to it, on both
\* paths: validate_test_cases does not raise, the faulting case yields one
\* failing TestResult with a validation-error message, and the other cases
\* are validated as usual.
C10_FaultConfined ==
    ValidateEnded =>
        /\ v_pc = "returned"
        /\ Len(v_out.value) = Len(v_cases)
        /\ \A i \in 1..Len(v_cases) :
              IF FaultsOnPath(v_exec, v_cases[i])
              THEN IsValidationError(v_out.value[i])
              ELSE ~IsValidationError(v_out.value[i])

\* C3: calculate_score returns floor(100 * passed_count / total_count), 0
\* for no results; always an integer in 0..100.
C3_ScoreIsFloor ==
    s_pc = "returned" =>
        /\ s_score \in 0..100
        /\ s_score = IF Len(s_results) = 0 THEN 0
                     ELSE (100 * PassedCount(s_results)) \div Len(s_results)

BackendEnded == bpc \in {"returned", "raised"}

\* C4: whenever the code is still running when the timeout expires,
\* execute_code of either backend returns exit_code 124, a descriptive
\* stderr and execution_time equal to the timeout.
C4_TimeoutSemantics ==
    (BackendEnded /\ expired) =>
        /\ bpc = "returned"
        /\ bres[1].exit_code = 124
        /\ bres[1].stderr # <<>>
        /\ bres[1].execution_time = timeout

\* C5: execute_code never returns a timeout result while the process or
\* container it started for the request is still running.
C5_TerminatedOnTimeout ==
    (BackendEnded /\ expired) => ctr # "running" /\ proc # "running"

\* C6: execute_code of either backend never raises; an internal fault is
\* returned as an ExecutionResult with exit_code 1 and a diagnostic stderr.
C6_FaultsBecomeResults ==
    (BackendEnded /\ bfault # "none") =>
        /\ bpc = "returned"
        /\ bres[1].exit_code = 1
        /\ bres[1].stderr # <<>>

\* C2: in every grading result passed = (score >= 70), and the flag
\* returned by grade_exercise, the flag that selected the feedback template
\* and the passed value get_exercise_result reports for the attempt agree.
C2_PassedAgrees ==
    /\ g_ret # NoneV => (g_ret[1].passed <=> g_ret[1].score >= 70)
    /\ (g_ret # NoneV /\ g_ret[1].error = NoneV) =>
          (g_ret[1].passed <=> Head(g_ret[1].feedback) = "Great job! You passed all ")
    /\ (g_ret # NoneV /\ poll # NoneV
          /\ (poll[1].status = "completed" \/ g_ret[1].error # NoneV)) =>
          (poll[1].passed <=> g_ret[1].passed)

\* C2 happens: a graded attempt that passed, and one that did not although
\* a test passed, each polled after grading
C2_Witness ==
    /\ g_ret # NoneV /\ poll # NoneV
    /\ poll[1].status = "completed"
    /\ g_ret[1].passed
    /\ poll[1].passed

\* the backend met an error while executing the submission
BackendError == bfault # "none" \/ (bpc = "returned" /\ ~client_ok)

\* C7: for a submission whose exercise exists, whatever backend error
\* occurs grade_exercise does not abort: it goes on to a failing
\* GradingResult and marks the attempt record as graded.
C7_PipelineCompletes ==
    BackendError =>
        /\ gpc # "aborted"
        /\ gpc = "done" => attempt[1].graded_at /\ ~g_ret[1].passed

----------------------------------------------------------------------------
(* Feedback *)

CongratulatoryTemplate == "Great job! You passed all "
ZeroPassedTemplate == "None of the test cases passed ("
PartialTemplate == "Some test cases passed ("

FailingTests(results) == { i \in 1..Len(results) : ~results[i].passed }

\* C11: generate_feedback selects exactly one of three templates by
\* outcome: the congratulatory one when all tests passed, the zero-passed
\* one when no test passed, the partial one when some but not all passed.
C11_TemplateByOutcome ==
    (f_pc = "returned" /\ Len(f_results) > 0) =>
        LET p == PassedCount(f_results)
            n == Len(f_results)
        IN  /\ Head(f_feedback) \in
                  {CongratulatoryTemplate, ZeroPassedTemplate, PartialTemplate}
            /\ Head(f_feedback) = CongratulatoryTemplate <=> p = n
            /\ Head(f_feedback) = ZeroPassedTemplate <=> p = 0
            /\ Head(f_feedback) = PartialTemplate <=> (0 < p /\ p < n)

\* the positions of the feedback where an item of the list starts
ItemStarts(fb) == { k \in 1..Len(fb) : fb[k] = "- " }

\* the j-th smallest element of a set of numbers
Nth(S, j) == CHOOSE k \in S : Cardinality({ m \in S : m < k }) = j - 1

\* C12: whenever at least one test failed, the feedback lists exactly the
\* failing tests: one item per failing test, in test order, each naming the
\* test_id and its error_message; no passing test is listed.
C12_FeedbackNamesFailures ==
    (f_pc = "returned" /\ FailingTests(f_results) # {}) =>
        /\ Cardinality(ItemStarts(f_feedback)) = Cardinality(FailingTests(f_results))
        /\ \A j \in 1..Cardinality(FailingTests(f_results)) :
              LET k == Nth(ItemStarts(f_feedback), j)
                  tr == f_results[Nth(FailingTests(f_results), j)]
              IN  /\ tr.error_message # NoneV
                  /\ SubSeq(f_feedback, k, k + 3 + Len(tr.error_message[1]))
                        = <<"- ", tr.test_id, ": ">> \o tr.error_message[1] \o <<"\n">>

----------------------------------------------------------------------------
(* Exercise not found *)

BackendUntouched ==
    /\ bpc = "idle" /\ bres = NoneV
    /\ staging = "none" /\ ctr = "none" /\ proc = "none"

\* C13: when the exercise cannot be found, grade_exercise ends in the
\* failure outcome at once: the step that misses the exercise returns the
\* failure without touching the backend, and from then on no backend
\* execution, validation or scoring happens for the submission and no
\* staging directory, container or process exists.
C13_NotFoundShortCircuits ==
    /\ [][(gpc = "queued" /\ ~exercise_present /\ gpc' # "queued") =>
            (gpc' = "failed" /\ g_ret' = Some(NotFoundReturn) /\ UNCHANGED bvars)]_vars
    /\ [][gpc = "failed" => (gpc' = "failed" /\ UNCHANGED bvars)]_vars
    /\ [](gpc = "failed" =>
            /\ BackendUntouched
            /\ g_results = <<>> /\ g_score = 0 /\ g_feedback = <<>>
            /\ g_ret = Some(NotFoundReturn)
            /\ ~attempt[1].graded_at)

\* C13 happens: the exercise was removed after the submission was accepted,
\* grade_exercise has returned the failure and the result was polled
C13_Witness ==
    /\ gpc = "failed" /\ ~exercise_present
    /\ g_ret = Some(NotFoundReturn)
    /\ poll # NoneV

----------------------------------------------------------------------------
(* Output capture *)

\* the code ran to its end and execute_code returned what it captured
CompletedRun ==
    /\ bpc = "returned" /\ bfault = "none" /\ ~expired
    /\ ctr # "none" \/ proc # "none"

Capped(stream) ==
    IF Len(stream) > MAX_OUTPUT_SIZE
    THEN SubSeq(stream, 1, MAX_OUTPUT_SIZE) \o TruncationMarker
    ELSE stream

\* C14: in both backends stdout and stderr are truncated independently: a
\* captured stream longer than MAX_OUTPUT_SIZE is returned as its first
\* MAX_OUTPUT_SIZE units followed by the marker, a shorter one unchanged;
\* every returned stream is at most MAX_OUTPUT_SIZE plus the marker long.
C14_IndependentTruncation ==
    /\ CompletedRun =>
          /\ bres[1].stdout = Capped(prog.out)
          /\ bres[1].stderr = Capped(prog.err)
    /\ bpc = "returned" =>
          /\ Len(bres[1].stdout) <= MAX_OUTPUT_SIZE + Len(TruncationMarker)
          /\ Len(bres[1].stderr) <= MAX_OUTPUT_SIZE + Len(TruncationMarker)

----------------------------------------------------------------------------
(* Teardown *)

\* C15: Container backend: on every return of execute_code after a
\* container was launched (normal completion, nonzero exit, internal error)
\* the container has been destroyed and the staging directory removed.
C15_ContainerTornDown ==
    (backend = "docker" /\ bpc = "returned" /\ ctr # "none" /\ ~expired) =>
        /\ ctr = "removed"
        /\ staging = "removed"

\* C16: Subprocess backend: the temporary file of a submission is removed on
\* every exit path of _execute_python and _execute_bash, a failure while
\* writing the code or making the script executable included.
C16_TempFileRemoved ==
    (backend = "subprocess" /\ BackendEnded) => staging # "present"

----------------------------------------------------------------------------
(* Requests refused before anything is started *)

NothingStarted == staging = "none" /\ ctr = "none" /\ proc = "none"

RuntimeUnavailable == backend = "docker" /\ ~client_ok

\* C17: when the container runtime was unavailable at construction, every
\* execute_code call of the Container backend, whatever the code, language
\* and timeout, returns exit_code 1 with empty stdout and a stderr that
\* explains the cause, creating no staging directory, launching nothing and
\* using no other backend.
C17_UnavailableFailsFast ==
    (RuntimeUnavailable /\ bpc # "idle") =>
        /\ bpc \in {"start", "returned"}
        /\ NothingStarted
        /\ limits = {}
        /\ bpc = "returned" =>
              /\ bres[1].exit_code = 1
              /\ bres[1].stdout = <<>>
              /\ bres[1].stderr = <<"Docker client not available">>
              /\ bres[1].execution_time = 0

\* C17 happens: the runtime is unavailable and a call for supported code
\* that would never end, with a timeout of its own, has returned
C17_Witness ==
    /\ RuntimeUnavailable /\ bpc = "returned"
    /\ language = "bash" /\ ~prog.halts /\ timeout_arg = 1

SupportedLanguages == {"python", "bash"}

ExplainsUnsupported(result) ==
    /\ StartsWith(result.stderr, <<"Unsupported language: ">>)
    /\ Contains(result.stderr, <<language>>)

\* C18 as stated: for any other language than the two supported ones,
\* execute_code of either backend returns at once with exit_code 1 and a
\* stderr explaining that the language is unsupported, before any file is
\* written or any process or container launched.
C18_UnsupportedAsStated ==
    (language \notin SupportedLanguages /\ bpc # "idle") =>
        /\ bpc \in {"start", "returned"}
        /\ NothingStarted
        /\ bpc = "returned" =>
              /\ bres[1].exit_code = 1
              /\ ExplainsUnsupported(bres[1])

\* C18: for any other language than the two supported ones, execute_code
\* of either backend returns at once with exit_code 1 and an explanatory
\* stderr, before any file is written or anything launched; the stderr says
\* that the language is unsupported, except that a Container backend
\* without its runtime reports the missing runtime instead.
C18_UnsupportedLanguage ==
    (language \notin SupportedLanguages /\ bpc # "idle") =>
        /\ bpc \in {"start", "returned"}
        /\ NothingStarted
        /\ bpc = "returned" =>
              /\ bres[1].exit_code = 1
              /\ bres[1].stdout = <<>>
              /\ IF RuntimeUnavailable
                 THEN bres[1].stderr = <<"Docker client not available">>
                 ELSE ExplainsUnsupported(bres[1])

\* C18 happens: a Container backend with its runtime has refused a request
\* in a language it does not know
C18_Witness ==
    /\ bpc = "returned" /\ backend = "docker" /\ client_ok
    /\ language \notin SupportedLanguages
    /\ ExplainsUnsupported(bres[1])

----------------------------------------------------------------------------
(* Resource limits *)

\* the four limits of an execution: memory ceiling, CPU quota, wall-clock
\* timeout, output-size cap
AllLimits == {"memory", "cpu", "timeout", "output"}

\* C19: no execution runs without resource limits: every process or
\* container started by either backend runs under a memory ceiling, a CPU
\* quota, a wall-clock timeout and an output-size cap.
C19_NoRunWithoutLimits ==
    (ctr = "running" \/ proc = "running") => AllLimits \subseteq limits

\* C20: execute_code starts nothing when a resolved limit is not positive:
\* with a resolved timeout of zero or less no process or container is
\* launched.
C20_RefusesNonPositiveLimit ==
    (bpc \notin {"idle", "start"} /\ timeout <= 0) =>
        ctr = "none" /\ proc = "none"

----------------------------------------------------------------------------
(* Shape of the TestResult sequence *)

\* C24: the TestResult sequence is in TestCase order: the i-th TestResult
\* carries the test_id of the i-th TestCase, on the clean-exit path and on
\* the execution-failed path alike.
C24_ResultsInCaseOrder ==
    v_pc = "returned" =>
        /\ Len(v_out.value) = Len(v_cases)
        /\ \A i \in 1..Len(v_cases) :
              v_cases[i].has_id => v_out.value[i].test_id = v_cases[i].test_id

\* C25: every TestResult the validator produces has an error_message if and
\* only if its passed field is false.
C25_MessageIffFailed ==
    v_pc = "returned" =>
        \A i \in 1..Len(v_out.value) :
            (v_out.value[i].error_message # NoneV) <=> ~v_out.value[i].passed

\* C25 happens: after a clean exit the validator returned a passing result
\* without a message and a failing result with one, in one list
C25_Witness ==
    /\ v_pc = "returned" /\ v_exec.exit_code = 0
    /\ \E i, j \in 1..Len(v_out.value) :
          /\ v_out.value[i].passed /\ v_out.value[i].error_message = NoneV
          /\ ~v_out.value[j].passed /\ v_out.value[j].error_message # NoneV

----------------------------------------------------------------------------
(* Isolation and the shared result contract *)

\* C22: under both backends, executed code that attempts outbound network
\* access to an external host never succeeds.
C22_NoOutboundNetwork == net # "connected"

\* what the other backend returns for the same program run to its end
OtherBackendCompleted ==
    IF backend = "docker" THEN SubprocessCompleted(prog) ELSE DockerCompleted(prog)

\* C26: for the same program behaviour, finishing before the timeout, the
\* Container backend and the Subprocess backend return the same stdout,
\* stderr and exit_code.
C26_BackendsAgree ==
    CompletedRun =>
        /\ bres[1].stdout = OtherBackendCompleted.stdout
        /\ bres[1].stderr = OtherBackendCompleted.stderr
        /\ bres[1].exit_code = OtherBackendCompleted.exit_code

\* the container of the request ended by itself before the timeout, and the
\* runtime itself did not fail
ExitedInTime ==
    /\ backend = "docker" /\ bpc = "returned"
    /\ ctr \in {"exited", "removed"}
    /\ prog.halts /\ ~StillRunningAt(prog, timeout)
    /\ bfault \in {"none", "wait", "gone"}

\* C29: Container backend: for a container that exits before the timeout,
\* execute_code returns the container's own status code as exit_code and
\* its logged output as stdout, however the runtime's automatic removal of
\* the exited container interleaves with the wait and logs calls.
C29_RemovalRaceHarmless ==
    ExitedInTime =>
        /\ bres[1].exit_code = prog.code
        /\ bres[1].stdout = Truncate(CombinedLogs(prog))

----------------------------------------------------------------------------
(* The grading pass and the attempt record *)

\* the steps of one grade_exercise invocation, in order
PipelineOrder ==
    { <<"none", "queued">>, <<"queued", "execute">>, <<"queued", "failed">>,
      <<"execute", "executing">>, <<"executing", "validate">>,
      <<"validate", "score">>, <<"score", "persist">>,
      <<"persist", "return">>, <<"return", "done">> }

\* C23: each invocation of grade_exercise on an existing exercise goes
\* through execute, validate, score, assemble strictly in this order: the
\* backend is called by the execute step only, the validator runs once on
\* the complete TestCase list, the scorer once, and no step is repeated,
\* skipped or re-entered.
C23_StrictSequence ==
    /\ [][gpc' # gpc => <<gpc, gpc'>> \in PipelineOrder]_vars
    /\ [][(bpc = "idle" /\ bpc' # "idle") =>
            (gpc = "execute" /\ gpc' = "executing")]_vars
    /\ [][(gpc = "validate" /\ gpc' # gpc) =>
            g_results' = validate_test_cases(g_exec, ex_cases).value]_vars
    /\ [][g_results' # g_results => gpc = "validate"]_vars
    /\ [][g_score' # g_score => gpc = "score"]_vars

UngradedAttempt == Attempt(NoneV, <<>>, 0, GradingPlaceholder, FALSE)

\* C27: the grade is persisted atomically: graded_at is set if and only if
\* execution_result, test_results, score and feedback are those of the
\* completed grading pass, and a poll never reports status completed with
\* the placeholder feedback or a score that is not the pass's score.
C27_AtomicPersist ==
    /\ attempt # NoneV =>
          IF attempt[1].graded_at
          THEN /\ gpc \in {"return", "done"}
               /\ attempt[1] = Attempt(Some(g_exec), g_results, g_score, g_feedback, TRUE)
          ELSE /\ gpc \notin {"return", "done"}
               /\ attempt[1] = UngradedAttempt
    /\ (poll # NoneV /\ poll[1].status = "completed") =>
          /\ poll[1].feedback # GradingPlaceholder
          /\ poll[1].feedback = g_feedback
          /\ poll[1].score = g_score
          /\ poll[1].test_results = g_results

\* C27 happens: a graded attempt with one failing test was polled after the
\* update
C27_Witness ==
    /\ poll # NoneV /\ poll[1].status = "completed"
    /\ gpc = "done"
    /\ poll[1].score = 50
    /\ Len(poll[1].test_results) = 2

\* C28: on the exercise-not-found path grade_exercise leaves the attempt
\* record as submit_exercise wrote it (graded_at null, score 0, placeholder
\* feedback), and get_exercise_result reports status grading for the
\* submission from then on.
C28_NotFoundLeavesAttempt ==
    /\ [](gpc = "failed" =>
            /\ attempt = Some(UngradedAttempt)
            /\ poll # NoneV =>
                  /\ poll[1].status = "grading"
                  /\ poll[1].score = 0
                  /\ poll[1].feedback = GradingPlaceholder)
    /\ [][gpc = "failed" => (gpc' = "failed" /\ attempt' = attempt)]_vars

\* C28 happens: the exercise was removed before the background task ran, the
\* task has given up and a later poll still says grading
C28_Witness ==
    /\ gpc = "failed" /\ g_ret # NoneV
    /\ attempt = Some(UngradedAttempt)
    /\ poll # NoneV /\ poll[1].status = "grading"

----------------------------------------------------------------------------
(* Concurrent requests *)

\* request q has a step of its background task to take
TaskPending(q) == q_pc[q] \in {"queued", "execute", "persist"}

\* C21: grading requests run concurrently and independently: while one
\* grade_exercise call is inside the Execution Backend, the grading of
\* another student's submission scheduled on the same server can take its
\* next step.
C21_GradingsIndependent ==
    \A r, q \in Reqs :
        (/\ r # q
         /\ q_user[r] # q_user[q]
         /\ q_pc[r] = "executing"
         /\ TaskPending(q)) => ENABLED RequestStep(q)

\* the documents of one user
AttemptsOf(u) == {d \in stored : d.user_id = u}

\* C30: the attempt_number values of one user's attempts on the exercise
\* are pairwise different and are exactly 1, 2, ..., n, also when the
\* user's submissions overlap.
C30_AttemptNumbersUnique ==
    \A u \in Users :
        /\ \A d, e \in AttemptsOf(u) :
              d.id # e.id => d.attempt_number # e.attempt_number
        /\ {d.attempt_number : d \in AttemptsOf(u)} = 1..Cardinality(AttemptsOf(u))

====
